---- MODULE Spec2Model ----
(***************************************************************************)
(* poly-watcher (src/main.go): a polling build/run watcher.                *)
(*                                                                         *)
(* Strings are sequences of byte values (Go strings are byte sequences).   *)
(* A 64-bit unsigned integer is a tuple of four 16-bit limbs, least        *)
(* significant first, so that FNV-1a is computed exactly as hash/fnv does. *)
(* A modification time is the number of seconds after                      *)
(* 2024-01-01 00:00:00 UTC (zone UTC); 0 stands for the zero time.Time,    *)
(* which no file carries.                                                  *)
(***************************************************************************)
EXTENDS Integers, Sequences, FiniteSets, TLC

(***************************************************************************)
(* Bounds of the model.                                                    *)
(***************************************************************************)
MaxProcs == 2     \* run processes that can be spawned in one behaviour
MaxEdits == 2     \* modifications of the watched tree in one behaviour
MaxTime  == 2     \* modification times of files range over 1..MaxTime
MaxSize  == 2     \* sizes of files range over 1..MaxSize
MaxRules == 2     \* longest include / exclude list in the matcher check

(***************************************************************************)
(* Byte strings used by the model.                                         *)
(***************************************************************************)
EmptyStr == <<>>
Slash    == 47                      \* '/'
Dot      == 46                      \* '.'
S_a      == <<97>>                  \* "a"
S_d      == <<100>>                 \* "d"
S_m      == <<109>>                 \* "m"
S_x      == <<120>>                 \* "x"
S_dm     == <<100, 47, 109>>        \* "d/m"
S_slm    == <<47, 109>>             \* "/m"
S_hid    == <<46, 104, 47, 97>>     \* ".h/a"
S_dep    == <<99>>                  \* "c", a dependency command
S_build  == <<98>>                  \* "b", a build command

(***************************************************************************)
(* strings.HasPrefix, strings.HasSuffix, filepath.Base                     *)
(***************************************************************************)
HasPrefix(s, prefix) ==
    /\ Len(prefix) <= Len(s)
    /\ SubSeq(s, 1, Len(prefix)) = prefix

HasSuffix(s, suffix) ==
    /\ Len(suffix) <= Len(s)
    /\ SubSeq(s, Len(s) - Len(suffix) + 1, Len(s)) = suffix

RECURSIVE StripTrailingSlashes(_)
StripTrailingSlashes(s) ==
    IF Len(s) > 0 /\ s[Len(s)] = Slash
    THEN StripTrailingSlashes(SubSeq(s, 1, Len(s) - 1))
    ELSE s

RECURSIVE AfterLastSlash(_, _)
AfterLastSlash(s, i) ==
    IF i = 0 THEN s
    ELSE IF s[i] = Slash THEN SubSeq(s, i + 1, Len(s))
    ELSE AfterLastSlash(s, i - 1)

Base(path) ==
    IF path = EmptyStr THEN <<Dot>>
    ELSE LET p == StripTrailingSlashes(path)
             q == AfterLastSlash(p, Len(p))
         IN  IF q = EmptyStr THEN <<Slash>> ELSE q

(***************************************************************************)
(* Watcher.shouldProcess                                                   *)
(***************************************************************************)
RECURSIVE matchesAny(_, _)
matchesAny(relPath, rules) ==
    IF rules = <<>> THEN FALSE
    ELSE IF HasPrefix(relPath, Head(rules)) \/ HasSuffix(relPath, Head(rules))
    THEN TRUE
    ELSE matchesAny(relPath, Tail(rules))

\* A plausible slip: the include rules are consulted before the exclude rules.
shouldProcess_IncludeFirst(relPath, incl, excl) ==
    IF Len(incl) = 0 THEN ~matchesAny(relPath, excl)
    ELSE IF matchesAny(relPath, incl) THEN TRUE
    ELSE FALSE

shouldProcess(relPath, incl, excl) ==
    IF matchesAny(relPath, excl) THEN FALSE
    ELSE IF Len(incl) = 0 THEN TRUE
    ELSE matchesAny(relPath, incl)

(***************************************************************************)
(* hash/fnv New64a on 16-bit limbs                                         *)
(***************************************************************************)
Limb == 65536

offset64 == <<8997, 33826, 40164, 52210>>     \* 0xcbf29ce484222325
\* prevHash initialised to the fingerprint of an empty tree
Zero64_Offset == offset64

Zero64   == <<0, 0, 0, 0>>                    \* the zero value of uint64

Bit(n, i) == (n \div (2 ^ i)) % 2

\* exclusive or of two 4-bit values, tabulated
Xor4 == [a \in 0..15, b \in 0..15 |->
            (((Bit(a, 0) + Bit(b, 0)) % 2)
             + (2 * ((Bit(a, 1) + Bit(b, 1)) % 2)))
            + ((4 * ((Bit(a, 2) + Bit(b, 2)) % 2))
               + (8 * ((Bit(a, 3) + Bit(b, 3)) % 2)))]

Xor8(a, b) == (16 * Xor4[a \div 16, b \div 16]) + Xor4[a % 16, b % 16]

\* h * 0x100000001b3 mod 2^64:  h * 0x1b3 + h * 2^40
MulPrime64(h) ==
    LET n1 == h[1] * 435
        n2 == (h[2] * 435) + (n1 \div Limb)
        n3 == (h[3] * 435) + (h[1] * 256) + (n2 \div Limb)
        n4 == (h[4] * 435) + (h[2] * 256) + (n3 \div Limb)
    IN  <<n1 % Limb, n2 % Limb, n3 % Limb, n4 % Limb>>

UInt64  == [1..4 -> 0..(Limb - 1)]
ByteStr == Seq(0..255)

\* one round of FNV-1a: hash ^= b; hash *= prime64
WriteByte[h \in UInt64, b \in 0..255] ==
    MulPrime64(<<(h[1] - (h[1] % 256)) + Xor8(h[1] % 256, b), h[2], h[3], h[4]>>)

\* hash.Write: one round for every byte, in order
WriteBytes[h \in UInt64, bytes \in ByteStr] ==
    LET w[i \in 0..Len(bytes)] ==
            IF i = 0 THEN h ELSE WriteByte[w[i - 1], bytes[i]]
    IN  w[Len(bytes)]

(***************************************************************************)
(* fmt.Sprintf("%d", n) and time.Time.String()                             *)
(***************************************************************************)
RECURSIVE FormatInt(_)
FormatInt(n) ==
    IF n < 10 THEN <<48 + n>>
    ELSE Append(FormatInt(n \div 10), 48 + (n % 10))

TwoDigits(n) == <<48 + (n \div 10), 48 + (n % 10)>>

\* "2024-01-01 00:MM:SS +0000 UTC" for t seconds after the epoch of the model
TimeString(t) ==
    <<50, 48, 50, 52, 45, 48, 49, 45, 48, 49, 32, 48, 48, 58>>
    \o TwoDigits((t \div 60) % 60) \o <<58>> \o TwoDigits(t % 60)
    \o <<32, 43, 48, 48, 48, 48, 32, 85, 84, 67>>

(***************************************************************************)
(* The watched tree.  filepath.Walk visits the entries of a directory in   *)
(* lexical order, so the files that can exist are listed in walk order:    *)
(* ".h/a", "d/m", "m", "x".                                                *)
(***************************************************************************)
WalkOrder == <<S_hid, S_dm, S_m, S_x>>
Files     == 1..Len(WalkOrder)

NoFile     == [present |-> FALSE, size |-> 0, mtime |-> 0]
File(s, t) == [present |-> TRUE, size |-> s, mtime |-> t]
FileStates == {NoFile} \cup {File(s, t) : s \in 1..MaxSize, t \in 1..MaxTime}
EmptyTree  == [i \in Files |-> NoFile]

\* While the loop runs, "m" and "x" change between four states: absent,
\* created, touched, rewritten.  (The harness of hashDir below lets every
\* file take every state of FileStates.)
LoopFiles  == {i \in Files : WalkOrder[i] \in {S_m, S_x}}
LoopStates == {NoFile, File(1, 1), File(1, 2), File(2, 1)}

ZeroTime == 0     \* the zero value of time.Time
NoProc   == 0     \* a nil *exec.Cmd
Pids     == 1..MaxProcs

VARIABLES
    \* the Watcher struct
    includes, excludes, depFile, depCmd, buildCmd,
    prevHash, prevDepMTime, process, processMu,
    \* the environment: the watched tree and the run processes
    tree, rootOK, proc, killed,
    \* the goroutines: Run (with its locals) and the exit-watchers
    pc, hash, depChanged, wpc,
    \* a direct call of shouldProcess
    answer,
    \* history of the current cycle and of the behaviour
    cycle, cycleLog, edits, dirty, scanDirty, seenDep, depExpected,
    failedHash, failedHashes

watcherVars == <<includes, excludes, depFile, depCmd, buildCmd>>
stateVars   == <<prevHash, prevDepMTime, process, processMu>>
envVars     == <<tree, rootOK, proc, killed>>
runVars     == <<pc, hash, depChanged, wpc>>
histVars    == <<cycle, cycleLog, edits, dirty, scanDirty, seenDep, depExpected,
                 failedHash, failedHashes>>
vars == <<watcherVars, stateVars, envVars, runVars, answer, histVars>>

(***************************************************************************)
(* Watcher.hashDir                                                         *)
(***************************************************************************)
\* Some directory on the way to relPath has a name that begins with '.'.
InHiddenDir(relPath) ==
    \E i \in 1..Len(relPath) :
        /\ relPath[i] = Dot
        /\ (i = 1 \/ relPath[i - 1] = Slash)
        /\ \E j \in (i + 1)..Len(relPath) : relPath[j] = Slash

isDepFile(relPath, dFile) ==
    dFile # EmptyStr /\ Base(relPath) = Base(dFile)

\* The path, size and time are hashed before shouldProcess is asked.
walkFn_HashFirst(acc, relPath, info, incl, excl, dFile) ==
    IF InHiddenDir(relPath) THEN acc
    ELSE LET h1 == WriteBytes[acc.hash, relPath]
             h2 == WriteBytes[h1, FormatInt(info.size)]
             h3 == WriteBytes[h2, TimeString(info.mtime)]
         IN  IF ~shouldProcess(relPath, incl, excl)
             THEN [acc EXCEPT !.hash = h3]
             ELSE IF isDepFile(relPath, dFile) /\ info.mtime # acc.prevDepMTime
             THEN [hash |-> h3, depChanged |-> TRUE, prevDepMTime |-> info.mtime]
             ELSE [acc EXCEPT !.hash = h3]

\* The walk function applied to one existing regular file.
walkFn(acc, relPath, info, incl, excl, dFile) ==
    IF InHiddenDir(relPath) THEN acc
    ELSE IF ~shouldProcess(relPath, incl, excl) THEN acc
    ELSE LET h1 == WriteBytes[acc.hash, relPath]
             h2 == WriteBytes[h1, FormatInt(info.size)]
             h3 == WriteBytes[h2, TimeString(info.mtime)]
         IN  IF isDepFile(relPath, dFile) /\ info.mtime # acc.prevDepMTime
             THEN [hash |-> h3, depChanged |-> TRUE, prevDepMTime |-> info.mtime]
             ELSE [acc EXCEPT !.hash = h3]

RECURSIVE walk(_, _, _, _, _, _)
walk(acc, i, t, incl, excl, dFile) ==
    IF i > Len(WalkOrder) THEN acc
    ELSE walk(IF t[i].present
              THEN walkFn(acc, WalkOrder[i], t[i], incl, excl, dFile)
              ELSE acc,
              i + 1, t, incl, excl, dFile)

\* An error on the root is handed to the walk function, which logs it and
\* returns nil, so filepath.Walk returns nil: err is never set.
hashDir(t, ok, incl, excl, dFile, prevDep) ==
    LET start == [hash |-> offset64, depChanged |-> FALSE, prevDepMTime |-> prevDep]
        r     == IF ok THEN walk(start, 1, t, incl, excl, dFile) ELSE start
    IN  r @@ [err |-> FALSE]

(***************************************************************************)
(* Initial states.  NewWatcher leaves prevHash, prevDepMTime and process   *)
(* at their zero values.  The configurations of the loop:                  *)
(*   K1  --exclude=x --depfile=m --depcommand=c --build=b                  *)
(*   K2  --exclude=d --depfile=d/m --depcommand= --build=                  *)
(***************************************************************************)
Config(incl, excl, dFile, dCmd, bCmd) ==
    [includes |-> incl, excludes |-> excl, depFile |-> dFile,
     depCmd |-> dCmd, buildCmd |-> bCmd]

LoopConfigs ==
    { Config(<<>>, <<S_x>>, S_m, S_dep, S_build),
      Config(<<>>, <<S_d>>, S_dm, EmptyStr, EmptyStr) }

Free       == <<"free">>
HeldByRun  == <<"startApp">>
HeldBy(p)  == <<"exit-watcher", p>>

NoAnswer == [called |-> FALSE, path |-> EmptyStr, result |-> FALSE]

NewWatcher(k) ==
    /\ includes = k.includes
    /\ excludes = k.excludes
    /\ depFile = k.depFile
    /\ depCmd = k.depCmd
    /\ buildCmd = k.buildCmd
    /\ prevHash = Zero64
    /\ prevDepMTime = ZeroTime
    /\ process = NoProc
    /\ processMu = Free

InitRest(start) ==
    /\ rootOK = TRUE
    /\ proc = [p \in Pids |-> "unborn"]
    /\ killed = {}
    /\ pc = start
    /\ hash = Zero64
    /\ depChanged = FALSE
    /\ wpc = [p \in Pids |-> "none"]
    /\ answer = NoAnswer
    /\ cycle = "none"
    /\ cycleLog = <<>>
    /\ edits = 0
    /\ dirty = "clean"
    /\ scanDirty = "clean"
    /\ seenDep = [i \in Files |-> ZeroTime]
    /\ depExpected = FALSE
    /\ failedHash = {}
    /\ failedHashes = {}

Init ==
    /\ \E k \in LoopConfigs : NewWatcher(k)
    /\ tree = EmptyTree
    /\ InitRest("scan")

(***************************************************************************)
(* The environment: the watched tree changes while Run sleeps (a change at *)
(* any other moment is seen by the same next scan), run processes exit.    *)
(***************************************************************************)
Accepted(i) ==
    /\ ~InHiddenDir(WalkOrder[i])
    /\ shouldProcess(WalkOrder[i], includes, excludes)

EditFile(i, f) ==
    /\ pc \in {"sleep", "harness"}
    /\ edits < MaxEdits
    /\ tree[i] # f
    /\ tree' = [tree EXCEPT ![i] = f]
    /\ edits' = edits + 1
    /\ dirty' = IF matchesAny(WalkOrder[i], excludes) /\ dirty # "other"
                THEN "excluded" ELSE "other"
    /\ UNCHANGED <<watcherVars, stateVars, rootOK, proc, killed, runVars, answer,
                   cycle, cycleLog, scanDirty, seenDep, depExpected, failedHash,
                   failedHashes>>

\* The root directory becomes unreadable, or readable again.
EditRoot ==
    /\ pc \in {"sleep", "harness"}
    /\ edits < MaxEdits
    /\ rootOK' = ~rootOK
    /\ edits' = edits + 1
    /\ dirty' = "other"
    /\ UNCHANGED <<watcherVars, stateVars, tree, proc, killed, runVars, answer,
                   cycle, cycleLog, scanDirty, seenDep, depExpected, failedHash,
                   failedHashes>>

ProcExit(p) ==
    /\ proc[p] = "running"
    /\ proc' = [proc EXCEPT ![p] = "exited"]
    /\ UNCHANGED <<watcherVars, stateVars, tree, rootOK, killed, runVars, answer,
                   histVars>>

(***************************************************************************)
(* Watcher.Run                                                             *)
(***************************************************************************)
changeDetected_Always(h, prev) == TRUE

changeDetected(h, prev) == h # prev

\* line 173 moved after the build: the fingerprint is kept only on success
prevHashOnChange_Keep(h, prev) == prev

prevHashOnChange(h, prev) == h

\* The dependency files a scan of the present tree reads: the files that
\* exist, that the walk reaches, that shouldProcess accepts and that line 96
\* takes for the dependency file.
Tracked ==
    {i \in Files : /\ rootOK
                   /\ tree[i].present
                   /\ Accepted(i)
                   /\ isDepFile(WalkOrder[i], depFile)}

\* What a scan of the present tree adds to the history: the changes of the
\* tree it covers, the time of every dependency file it read, and whether
\* one of them has a time that the last scan which read it did not see.
ScanHistory ==
    /\ cycleLog' = <<>>
    /\ dirty' = "clean"
    /\ scanDirty' = dirty
    /\ seenDep' = [i \in Files |->
                      IF i \in Tracked THEN tree[i].mtime ELSE seenDep[i]]
    /\ depExpected' = (\E i \in Tracked : tree[i].mtime # seenDep[i])

Scan ==
    /\ pc = "scan"
    /\ \E r \in {hashDir(tree, rootOK, includes, excludes, depFile, prevDepMTime)} :
           /\ prevDepMTime' = r.prevDepMTime
           /\ hash' = r.hash
           /\ depChanged' = r.depChanged
           /\ IF r.err
              THEN /\ pc' = "sleep"
                   /\ cycle' = "error"
                   /\ UNCHANGED <<prevHash, failedHash>>
              ELSE IF changeDetected(r.hash, prevHash)
              THEN /\ prevHash' = prevHashOnChange(r.hash, prevHash)
                   /\ pc' = "runBuild"
                   /\ cycle' = "changed"
                   /\ failedHash' = {}
              ELSE /\ pc' = "sleep"
                   /\ cycle' = "unchanged"
                   /\ UNCHANGED <<prevHash, failedHash>>
    /\ ScanHistory
    /\ UNCHANGED <<watcherVars, process, processMu, envVars, wpc, answer, edits,
                   failedHashes>>

\* runShell: an empty command succeeds without running anything
ShellOutcomes(command) == IF command = EmptyStr THEN {TRUE} ELSE BOOLEAN

Logged(name, command, ok) ==
    IF command = EmptyStr THEN cycleLog
    ELSE Append(cycleLog, <<name, ok>>)

depStepNeeded_Always(dc, dCmd) == dCmd # EmptyStr

depStepNeeded(dc, dCmd) == dc /\ dCmd # EmptyStr

afterDep_Ignore(ok) == "build"

afterDep(ok) == IF ok THEN "build" ELSE "sleep"

afterBuild_Ignore(ok) == "startApp"

\* the failure branch loops without time.Sleep
afterBuild_NoSleep(ok) == IF ok THEN "startApp" ELSE "scan"

afterBuild(ok) == IF ok THEN "startApp" ELSE "sleep"

Failed(ok) ==
    /\ failedHash' = IF ok THEN failedHash ELSE {hash}
    /\ failedHashes' = IF ok THEN failedHashes ELSE failedHashes \cup {hash}

\* runBuild, lines 122-127
DepStep ==
    /\ pc = "runBuild"
    /\ IF depStepNeeded(depChanged, depCmd)
       THEN \E ok \in ShellOutcomes(depCmd) :
               /\ cycleLog' = Logged("dep", depCmd, ok)
               /\ pc' = afterDep(ok)
               /\ Failed(ok)
       ELSE /\ pc' = "build"
            /\ UNCHANGED <<cycleLog, failedHash, failedHashes>>
    /\ UNCHANGED <<watcherVars, stateVars, envVars, hash, depChanged, wpc, answer,
                   cycle, edits, dirty, scanDirty, seenDep, depExpected>>

\* runBuild, lines 128-129, and the test of its result in Run
BuildStep ==
    /\ pc = "build"
    /\ \E ok \in ShellOutcomes(buildCmd) :
          /\ cycleLog' = Logged("build", buildCmd, ok)
          /\ pc' = afterBuild(ok)
          /\ Failed(ok)
    /\ UNCHANGED <<watcherVars, stateVars, envVars, hash, depChanged, wpc, answer,
                   cycle, edits, dirty, scanDirty, seenDep, depExpected>>

Sleep ==
    /\ pc = "sleep"
    /\ pc' = "scan"
    /\ UNCHANGED <<watcherVars, stateVars, envVars, hash, depChanged, wpc, answer,
                   histVars>>

(***************************************************************************)
(* Watcher.startApp, called by Run after a successful build                *)
(***************************************************************************)
\* line 139 left out: the killed process stays tracked
handleAfterKill_Keep(cmd) == cmd

handleAfterKill(cmd) == NoProc

\* line 138 left out: the handle is dropped, the process is not killed
killRequested_None(ks, cmd) == ks

\* line 138: Process.Kill sends the signal and returns
killRequested(ks, cmd) == ks \cup {cmd}

\* the mutex is taken without waiting for its holder
canLock_Always(mu) == TRUE

\* sync.Mutex: Lock returns only when no one holds the mutex
canLock(mu) == mu = Free

\* line 133: Lock
StartLock ==
    /\ pc = "startApp"
    /\ canLock(processMu)
    /\ processMu' = HeldByRun
    /\ pc' = "startKill"
    /\ cycleLog' = Append(cycleLog, <<"startApp", TRUE>>)
    /\ UNCHANGED <<watcherVars, prevHash, prevDepMTime, process, envVars, hash,
                   depChanged, wpc, answer, cycle, edits, dirty, scanDirty,
                   seenDep, depExpected, failedHash, failedHashes>>

\* lines 136-140: Kill, which does not wait and fails silently on a process
\* that has exited
StartKill ==
    /\ pc = "startKill"
    /\ IF process # NoProc
       THEN /\ killed' = killRequested(killed, process)
            /\ process' = handleAfterKill(process)
       ELSE UNCHANGED <<killed, process>>
    /\ pc' = "startSpawn"
    /\ UNCHANGED <<watcherVars, prevHash, prevDepMTime, processMu, tree, rootOK,
                   proc, hash, depChanged, wpc, answer, histVars>>

Unborn == {p \in Pids : proc[p] = "unborn"}

\* the process cmd.Start would create: the lowest unused pid, none when the
\* system has no process left to give
NewProc ==
    IF Unborn = {} THEN NoProc
    ELSE CHOOSE q \in Unborn : \A o \in Unborn : q <= o

\* cmd.Start succeeds only when there is a process to create
StartOutcomes == IF Unborn = {} THEN {FALSE} ELSE BOOLEAN

\* line 151 moved before the test of cmd.Start's error
handleAfterStart_Early(cur, cmd, ok) == cmd

\* lines 147-151: the handle after cmd.Start
handleAfterStart(cur, cmd, ok) == IF ok THEN cmd ELSE cur

\* Run stops when the app cannot be started
afterStart_Exit(ok) == IF ok THEN "sleep" ELSE "exit"

\* lines 181-186: the error of startApp is logged, then Run sleeps
afterStart(ok) == "sleep"

\* lines 142-159 and the deferred Unlock: cmd.Start succeeds (the new
\* process is tracked and its exit-watcher started) or fails (startApp
\* returns the error, which Run logs)
StartSpawn ==
    /\ pc = "startSpawn"
    /\ \E ok \in StartOutcomes :
          /\ process' = handleAfterStart(process, NewProc, ok)
          /\ proc' = IF ok THEN [proc EXCEPT ![NewProc] = "running"] ELSE proc
          /\ wpc' = IF ok THEN [wpc EXCEPT ![NewProc] = "wait"] ELSE wpc
          /\ cycleLog' = Append(cycleLog, <<"spawn", ok>>)
          /\ pc' = afterStart(ok)
    /\ processMu' = Free
    /\ UNCHANGED <<watcherVars, prevHash, prevDepMTime, tree, rootOK, killed,
                   hash, depChanged, answer, cycle, edits, dirty, scanDirty,
                   seenDep, depExpected, failedHash, failedHashes>>

(***************************************************************************)
(* The exit-watcher goroutine of process p, lines 152-158                  *)
(***************************************************************************)
\* cmd.Wait returns once p has exited; then processMu.Lock
WatcherLock(p) ==
    /\ wpc[p] = "wait"
    /\ proc[p] = "exited"
    /\ canLock(processMu)
    /\ processMu' = HeldBy(p)
    /\ wpc' = [wpc EXCEPT ![p] = "locked"]
    /\ UNCHANGED <<watcherVars, prevHash, prevDepMTime, process, envVars, pc, hash,
                   depChanged, answer, histVars>>

\* line 156 left out: the exit-watcher leaves the handle alone
handleAfterExit_Keep(cur, p) == cur

\* line 156
handleAfterExit(cur, p) == NoProc

\* lines 156-157
WatcherClear(p) ==
    /\ wpc[p] = "locked"
    /\ process' = handleAfterExit(process, p)
    /\ processMu' = Free
    /\ wpc' = [wpc EXCEPT ![p] = "done"]
    /\ UNCHANGED <<watcherVars, prevHash, prevDepMTime, envVars, pc, hash,
                   depChanged, answer, histVars>>

(***************************************************************************)
(* The program                                                             *)
(***************************************************************************)
Next ==
    \/ \E i \in LoopFiles, f \in LoopStates : EditFile(i, f)
    \/ EditRoot
    \/ \E p \in Pids : ProcExit(p)
    \/ Scan
    \/ DepStep
    \/ BuildStep
    \/ StartLock
    \/ StartKill
    \/ StartSpawn
    \/ \E p \in Pids : WatcherLock(p)
    \/ \E p \in Pids : WatcherClear(p)
    \/ Sleep

Spec == Init /\ [][Next]_vars

\* The goroutine of Run is always scheduled again, every scan, every shell
\* command and cmd.Start return, and an exit-watcher that holds the lock
\* releases it.  Nothing is assumed about the tree or about the run
\* processes exiting.
RunStep ==
    Scan \/ DepStep \/ BuildStep \/ StartLock \/ StartKill \/ StartSpawn \/ Sleep

Fairness ==
    /\ WF_vars(RunStep)
    /\ \A p \in Pids : WF_vars(WatcherClear(p))

SpecLive == Spec /\ Fairness

\* Moreover an exit-watcher whose cmd.Wait has returned gets the lock once
\* the lock stays free: sync.Mutex hands the lock to a waiter.
WatcherFairness == \A p \in Pids : WF_vars(WatcherLock(p))

SpecFair == SpecLive /\ WatcherFairness

(***************************************************************************)
(* The program started with --depfile=m --depcommand=c --build=b and no    *)
(* rules, in a tree that holds d/m: two accepted files have the base name  *)
(* of the dependency file.                                                 *)
(***************************************************************************)
DepConfig == Config(<<>>, <<>>, S_m, S_dep, S_build)

DepTree == [i \in Files |-> IF WalkOrder[i] = S_dm THEN File(1, 1) ELSE NoFile]

InitDep ==
    /\ NewWatcher(DepConfig)
    /\ tree = DepTree
    /\ InitRest("scan")

SpecDep == InitDep /\ [][Next]_vars

(***************************************************************************)
(* The program from its start to the end of its first cycle: Run does not  *)
(* come back from the first Sleep.  It is started with each configuration  *)
(* of the loop, in an empty tree and in a tree that holds d/m.             *)
(***************************************************************************)
InitFirst ==
    /\ \E k \in LoopConfigs : NewWatcher(k)
    /\ tree \in {EmptyTree, DepTree}
    /\ InitRest("scan")

NextFirst ==
    \/ \E i \in LoopFiles, f \in LoopStates : EditFile(i, f)
    \/ EditRoot
    \/ \E p \in Pids : ProcExit(p)
    \/ Scan
    \/ DepStep
    \/ BuildStep
    \/ StartLock
    \/ StartKill
    \/ StartSpawn
    \/ \E p \in Pids : WatcherLock(p)
    \/ \E p \in Pids : WatcherClear(p)

SpecFirst == InitFirst /\ [][NextFirst]_vars

(***************************************************************************)
(* A harness that calls hashDir again and again on a changing tree, with   *)
(* every file of WalkOrder taking every state of FileStates.               *)
(*   --exclude=x --depfile=m          --include=m --exclude=d --depfile=d/m *)
(*   --include=x --depfile=m          no rules, no dependency file         *)
(***************************************************************************)
ScanConfigs ==
    { Config(<<>>, <<S_x>>, S_m, S_dep, S_build),
      Config(<<S_m>>, <<S_d>>, S_dm, S_dep, S_build),
      Config(<<S_x>>, <<>>, S_m, S_dep, S_build),
      Config(<<>>, <<>>, EmptyStr, S_dep, S_build) }

InitScan ==
    /\ \E k \in ScanConfigs : NewWatcher(k)
    /\ tree = EmptyTree
    /\ InitRest("harness")

CallHashDir ==
    /\ pc = "harness"
    /\ \E r \in {hashDir(tree, rootOK, includes, excludes, depFile, prevDepMTime)} :
           /\ prevDepMTime' = r.prevDepMTime
           /\ hash' = r.hash
           /\ depChanged' = r.depChanged
    /\ cycle' = "call"
    /\ ScanHistory
    /\ UNCHANGED <<watcherVars, prevHash, process, processMu, envVars, pc, wpc,
                   answer, edits, failedHash, failedHashes>>

NextScan ==
    \/ \E i \in Files, f \in FileStates : EditFile(i, f)
    \/ EditRoot
    \/ CallHashDir

SpecScan == InitScan /\ [][NextScan]_vars

(***************************************************************************)
(* A harness that calls shouldProcess on every path with every pair of     *)
(* rule lists of at most MaxRules rules.                                   *)
(***************************************************************************)
Rules     == {EmptyStr, S_d, S_m, S_x, S_slm}
Paths     == {S_hid, S_dm, S_m, S_x, S_a, S_d}
RuleLists == UNION {[1..n -> Rules] : n \in 0..MaxRules}

InitMatch ==
    /\ \E incl \in RuleLists, excl \in RuleLists :
          NewWatcher(Config(incl, excl, EmptyStr, EmptyStr, EmptyStr))
    /\ tree = EmptyTree
    /\ InitRest("harness")

CallShouldProcess(relPath) ==
    /\ pc = "harness"
    /\ answer' = [called |-> TRUE, path |-> relPath,
                  result |-> shouldProcess(relPath, includes, excludes)]
    /\ UNCHANGED <<watcherVars, stateVars, envVars, runVars, histVars>>

NextMatch == \E relPath \in Paths : CallShouldProcess(relPath)

SpecMatch == InitMatch /\ [][NextMatch]_vars

(***************************************************************************)
(* Properties                                                              *)
(***************************************************************************)
\* Run leaves the scan: the step that calls hashDir and compares.
ScanStep == pc = "scan" /\ pc' # "scan"

\* The cycle that this step begins ends at once, with nothing run.
QuietCycle ==
    /\ pc' = "sleep"
    /\ cycleLog' = <<>>
    /\ prevHash' = prevHash
    /\ process' = process
    /\ killed' = killed

\* The cycle is over: Run sleeps, or has slept and is about to scan again.
CycleOver == pc \in {"sleep", "scan"}

Ran(name)      == \E i \in DOMAIN cycleLog : cycleLog[i][1] = name
RanOk(name)    == \E i \in DOMAIN cycleLog : cycleLog[i] = <<name, TRUE>>
RanBad(name)   == \E i \in DOMAIN cycleLog : cycleLog[i] = <<name, FALSE>>
Spawned        == {p \in Pids : proc[p] # "unborn"}

\* C1: Watcher.process holds at most one handle, nil or the process spawned
\* last, and never a process that startApp has killed.
C1_SingleHandle ==
    /\ process \in {NoProc} \cup Spawned
    /\ process # NoProc => \A q \in Spawned : q <= process
    /\ process \notin killed

C1_Witness == pc = "sleep" /\ killed # {} /\ process # NoProc

\* C2: the exit-watcher of p clears Watcher.process only when it refers to p.
C2_ClearsOnlyOwn ==
    [][\A p \in Pids :
          (wpc[p] = "locked" /\ wpc'[p] = "done" /\ process' # process)
              => process = p]_vars

\* C3 (as amended): prevHash is the new fingerprint before the build runs
\* and stays so when the build fails; after a cycle whose build failed,
\* the cycles that follow run nothing as long as their scans return that
\* same fingerprint.
C3_NoRetryWhileSame ==
    /\ [](pc \in {"runBuild", "build", "startApp", "startKill", "startSpawn"}
             => prevHash = hash)
    /\ [][(pc \in {"runBuild", "build"} /\ pc' = "sleep")
             => (prevHash' = hash /\ failedHash' = {hash})]_vars
    /\ [][(ScanStep /\ hash' \in failedHash) => QuietCycle]_vars

C3_Witness ==
    /\ pc = "sleep"
    /\ cycle = "unchanged"
    /\ hash \in failedHash

\* C3 (as claimed): after a cycle whose build failed, every later cycle
\* whose scan returns the fingerprint of that cycle runs nothing.
C3_NeverRetry ==
    [][(ScanStep /\ hash' \in failedHashes) => QuietCycle]_vars

Rank(e) ==
    IF e[1] = "dep" THEN 1
    ELSE IF e[1] = "build" THEN 2
    ELSE IF e[1] = "startApp" THEN 3
    ELSE 4

\* Within a cycle: the dependency command, then the build command, then
\* startApp and its cmd.Start, each at most once and none after a failure.
InOrder ==
    \A i, j \in DOMAIN cycleLog :
        i < j => (Rank(cycleLog[i]) < Rank(cycleLog[j]) /\ cycleLog[i][2])

\* C4 (as amended): dependency command, build command and startApp come in
\* this order, and startApp is called only when runBuild succeeded: the
\* build command ran and succeeded, or it is empty and nothing was run.
C4_Order ==
    /\ InOrder
    /\ (Ran("startApp") \/ pc \in {"startApp", "startKill", "startSpawn"})
           => /\ RanOk("build") \/ buildCmd = EmptyStr
              /\ ~RanBad("build")
              /\ ~RanBad("dep")

C4_Witness ==
    cycleLog = << <<"dep", TRUE>>, <<"build", TRUE>>, <<"startApp", TRUE>> >>

\* C4 (as claimed): startApp is called only in a cycle in which the build
\* command ran and succeeded.
C4_BuildRan ==
    /\ InOrder
    /\ (Ran("startApp") \/ pc \in {"startApp", "startKill", "startSpawn"}) => RanOk("build")

\* C5: when the build command fails, startApp is not called in the cycle,
\* the tracked process is neither killed nor replaced, and Run sleeps and
\* then scans again.
C5_BuildFailure ==
    /\ [](RanBad("build") => (CycleOver /\ ~Ran("startApp")))
    /\ [][(pc = "build" /\ cycleLog' = Append(cycleLog, <<"build", FALSE>>))
             => (pc' = "sleep" /\ process' = process /\ killed' = killed
                 /\ proc' = proc /\ processMu' = processMu)]_vars
    /\ [][(RanBad("build") /\ pc = "sleep" /\ pc' # pc)
             => (pc' = "scan" /\ process' = process /\ killed' = killed)]_vars

C5_Witness == RanBad("build") /\ process # NoProc /\ pc = "sleep"

\* C6: in a Changed cycle the dependency command runs exactly when the scan
\* reported depChanged and depCmd is not empty; when it fails the cycle
\* ends without build and without startApp.
C6_DepStep ==
    /\ (cycle = "changed" /\ pc # "runBuild")
           => (Ran("dep") <=> (depChanged /\ depCmd # EmptyStr))
    /\ RanBad("dep") => (cycleLog = << <<"dep", FALSE>> >> /\ CycleOver)

C6_Witness == RanBad("dep") /\ pc = "sleep"

IsPrefixOf(rule, relPath) ==
    \E k \in 0..Len(relPath) : SubSeq(relPath, 1, k) = rule
IsSuffixOf(rule, relPath) ==
    \E k \in 0..Len(relPath) : SubSeq(relPath, k + 1, Len(relPath)) = rule
RuleMatches(rules, relPath) ==
    \E i \in DOMAIN rules :
        IsPrefixOf(rules[i], relPath) \/ IsSuffixOf(rules[i], relPath)

\* C7: shouldProcess(p) is true exactly when no exclude rule is a prefix or
\* a suffix of p and the include list is empty or has a rule that is a
\* prefix or a suffix of p.
C7_ShouldProcess ==
    answer.called =>
        (answer.result <=> (/\ ~RuleMatches(excludes, answer.path)
                            /\ (includes = <<>>
                                \/ RuleMatches(includes, answer.path))))

C7_Witness ==
    /\ answer.called
    /\ RuleMatches(excludes, answer.path)
    /\ RuleMatches(includes, answer.path)
    /\ ~answer.result

\* C8: a scan reports depChanged exactly when a dependency file that
\* shouldProcess accepts has a modification time that the last scan which
\* read the file did not see.
C8_DepChangedOnce == cycle = "call" => (depChanged <=> depExpected)

HashOf(t) ==
    hashDir(t, rootOK, includes, excludes, depFile, prevDepMTime).hash

\* C9: a change of files that an exclude rule rejects leaves the
\* fingerprint as it was, and the cycle after it runs nothing.
C9_ExcludedEdits ==
    /\ [][(tree' # tree /\ dirty' = "excluded") => HashOf(tree') = HashOf(tree)]_vars
    /\ [][(ScanStep /\ dirty = "excluded" /\ cycle \in {"changed", "unchanged"})
             => (hash' = hash /\ cycle' = "unchanged" /\ QuietCycle)]_vars

C9_Witness ==
    /\ pc = "sleep"
    /\ scanDirty = "excluded"
    /\ cycle = "unchanged"
    /\ \E i \in Files : tree[i].present /\ matchesAny(WalkOrder[i], excludes)

\* C10: when the scan returns an error to Run, the cycle changes nothing:
\* prevHash, prevDepMTime and the tracked process stay, no command runs, Run
\* sleeps and then scans again.
C10_ErrorChangesNothing ==
    /\ [][(ScanStep /\ cycle' = "error")
             => (QuietCycle /\ prevDepMTime' = prevDepMTime)]_vars
    /\ [](cycle = "error" => (cycleLog = <<>> /\ CycleOver))

\* The walk function returns nil for every error it is given, so hashDir
\* returns no error, whatever the tree and also when the root cannot be
\* read: Run never takes the branch of lines 165-169.
C10_NoScanError == cycle # "error"

\* C11: a failed spawn leaves Watcher.process cleared, also when a process
\* was tracked and killed by this startApp; it starts no exit-watcher and no
\* process, releases the lock, and Run sleeps and goes on to the next scan.
C11_SpawnFailure ==
    /\ [](RanBad("spawn") => (process = NoProc /\ CycleOver))
    /\ [][(pc = "startSpawn" /\ cycleLog' = Append(cycleLog, <<"spawn", FALSE>>))
             => /\ process' = NoProc
                /\ wpc' = wpc
                /\ proc' = proc
                /\ processMu' = Free
                /\ pc' = "sleep"]_vars
    /\ [][(RanBad("spawn") /\ pc = "sleep" /\ pc' # pc) => pc' = "scan"]_vars

C11_Witness ==
    /\ RanBad("spawn")
    /\ pc = "scan"
    /\ killed # {}
    /\ \E p \in killed : proc[p] = "running"

\* The critical sections: startApp between Lock and the deferred Unlock,
\* and the exit-watcher of p between its Lock and Unlock.
InStartApp   == pc \in {"startKill", "startSpawn"}
InWatcher(p) == wpc[p] = "locked"

\* C12: Watcher.process is read and written only by the holder of processMu,
\* and at most one of startApp and the exit-watchers is in its critical
\* section.
C12_UnderLock ==
    /\ [](InStartApp => (processMu = HeldByRun /\ \A p \in Pids : ~InWatcher(p)))
    /\ [](\A p \in Pids : InWatcher(p) =>
             /\ processMu = HeldBy(p)
             /\ ~InStartApp
             /\ \A q \in Pids \ {p} : ~InWatcher(q))
    /\ [][(process' # process \/ killed' # killed) => processMu # Free]_vars
    /\ [][processMu # Free =>
             (process' # process =>
                 \/ (processMu = HeldByRun /\ InStartApp)
                 \/ \E p \in Pids : processMu = HeldBy(p) /\ InWatcher(p)
                                    /\ wpc'[p] = "done")]_vars

\* an exit-watcher holds the lock while Run waits for it in startApp
C12_Witness ==
    /\ pc = "startApp"
    /\ \E p \in Pids : InWatcher(p) /\ processMu = HeldBy(p)
    /\ process # NoProc

\* C13: Run never stops: a scan is entered only from the sleep, and Run
\* sleeps again and again and scans again and again, whatever the branches
\* its cycles take.
C13_NoTerminalState ==
    /\ [][(pc' = "scan" /\ pc # "scan") => pc = "sleep"]_vars
    /\ [](pc \in {"scan", "runBuild", "build", "startApp", "startKill",
                  "startSpawn", "sleep"})
    /\ []<>(pc = "scan")
    /\ []<>(pc = "sleep")

\* Run is about to scan again after a cycle whose restart failed, and after
\* the tree has changed as often as it can
C13_Witness ==
    /\ pc = "scan"
    /\ cycle = "changed"
    /\ RanBad("spawn")
    /\ edits = MaxEdits

\* C14: a scan of a tree that has not been modified since the scan before
\* returns the same fingerprint, and its cycle is Unchanged: no command and
\* no restart, prevHash and the tracked process stay.
C14_UnchangedTree ==
    /\ []((cycle # "none" /\ dirty = "clean")
             => (hash = HashOf(tree) /\ (pc \in {"sleep", "scan"} => prevHash = hash)))
    /\ [][(ScanStep /\ cycle # "none" /\ dirty = "clean")
             => /\ hash' = hash
                /\ cycle' = "unchanged"
                /\ QuietCycle
                /\ processMu' = processMu
                /\ proc' = proc]_vars

C14_Witness ==
    /\ pc = "sleep"
    /\ cycle = "unchanged"
    /\ scanDirty = "clean"
    /\ process # NoProc
    /\ \E i \in Files : tree[i].present /\ Accepted(i)

\* C15: startApp requests the kill of the tracked process in a step of its
\* own, before the step that spawns; that step does not depend on the
\* process having exited and does not wait for it; a process is spawned only
\* by the later step, with the handle cleared.
C15_KillBeforeSpawn ==
    /\ [][(pc = "startKill" /\ pc' # pc /\ process # NoProc)
             => /\ process \in killed'
                /\ proc' = proc
                /\ pc' = "startSpawn"]_vars
    /\ [][(Spawned' # Spawned)
             => /\ pc = "startSpawn"
                /\ process = NoProc
                /\ killed' = killed]_vars
    /\ [](pc = "startSpawn" => process = NoProc)

\* the killed predecessor has not exited and its replacement runs
C15_Witness ==
    \E p \in killed :
        /\ proc[p] = "running"
        /\ process \notin {NoProc, p}
        /\ proc[process] = "running"

\* The step of runBuild that runs the dependency command.
DepRuns ==
    /\ pc = "runBuild"
    /\ \E ok \in BOOLEAN : cycleLog' = Append(cycleLog, <<"dep", ok>>)

\* C16: prevDepMTime changes only in the scan, whatever the commands return;
\* once a cycle has failed, the dependency command runs in a later cycle only
\* if a dependency file's modification time differs from the time the scan
\* before saw for it.
C16_NoRerunAfterFailure ==
    /\ [][pc # "scan" => prevDepMTime' = prevDepMTime]_vars
    /\ [][(DepRuns /\ failedHashes # {}) => depExpected]_vars

\* How often startApp was called in the cycle.
StartAppCalls == Cardinality({i \in DOMAIN cycleLog : cycleLog[i][1] = "startApp"})

\* runBuild returned nil: no command of the cycle failed, and the build
\* command ran unless it is empty.
RunBuildOk ==
    /\ ~RanBad("dep")
    /\ ~RanBad("build")
    /\ (RanOk("build") \/ buildCmd = EmptyStr)

\* C17 (as amended): prevHash starts at 0, and the first scan, whose
\* fingerprint is not 0, starts a Changed cycle, also in a tree with no
\* accepted file.  In that cycle the build command, if not empty, runs unless
\* the dependency command ran and failed; startApp is called once if runBuild
\* returned success, and not at all otherwise.
C17_FirstCycle ==
    /\ (cycle = "none" => prevHash = <<0, 0, 0, 0>>)
    /\ ((cycle # "none" /\ hash # <<0, 0, 0, 0>>) => cycle = "changed")
    /\ ((cycle = "changed" /\ pc = "sleep") =>
           /\ Ran("build") <=> (~RanBad("dep") /\ buildCmd # EmptyStr)
           /\ RanBad("dep") => depCmd # EmptyStr /\ depChanged
           /\ StartAppCalls = (IF RunBuildOk THEN 1 ELSE 0))

\* the first cycle ran the dependency command, which failed: no build
\* command and no startApp
C17_Witness ==
    /\ pc = "sleep"
    /\ cycle = "changed"
    /\ RanBad("dep")
    /\ ~Ran("build")
    /\ StartAppCalls = 0

\* C17 (as claimed): in the first cycle the build command runs and, if it
\* succeeds, startApp is called exactly once.
C17_BuildAlwaysRuns ==
    /\ ((cycle # "none" /\ hash # <<0, 0, 0, 0>>) => cycle = "changed")
    /\ ((cycle = "changed" /\ pc = "sleep") =>
           /\ Ran("build")
           /\ RanOk("build") => StartAppCalls = 1)

\* C18: every run process that has been spawned, has not exited and has not
\* been sent a kill is the process Watcher.process refers to, so at most one
\* such process is alive.
C18_LiveIsTracked ==
    /\ \A p \in Pids : (proc[p] = "running" /\ p \notin killed) => process = p
    /\ Cardinality({p \in Pids : proc[p] = "running" /\ p \notin killed}) <= 1

\* C19: the exit-watcher of a process that has exited gets to run and leaves
\* Watcher.process not referring to that process, for good; startApp then
\* never sends a kill to it; and a process is started only by startApp, in a
\* Changed cycle whose runBuild returned success.
C19_ExitCleared ==
    /\ \A p \in Pids : []<>(~(proc[p] = "exited" /\ wpc[p] \in {"wait", "locked"}))
    /\ [](\A p \in Pids : wpc[p] = "done" => (proc[p] = "exited" /\ process # p))
    /\ [][\A p \in Pids : wpc[p] = "done" => (p \in killed' <=> p \in killed)]_vars
    /\ [][(Spawned' # Spawned)
             => /\ cycle = "changed"
                /\ RunBuildOk
                /\ Ran("startApp")
                /\ Spawned \subseteq Spawned'
                /\ \A p \in Spawned : proc'[p] = proc[p]]_vars

\* the tracked process exited on its own, its exit-watcher cleared the
\* handle, and a later startApp has run without sending it a kill
C19_Witness ==
    \E p \in Pids :
        /\ wpc[p] = "done"
        /\ p \notin killed
        /\ \E q \in Pids : q > p /\ process = q

\* C20: a scan reports depChanged, and the cycle runs the dependency
\* command, only if some accepted file with the dependency file's base name
\* has a modification time other than the one the scan before saw for it;
\* so also when several accepted files have that base name.
C20_DepOnlyOnChange ==
    /\ []((cycle \in {"changed", "unchanged"} /\ depChanged) => depExpected)
    /\ [][DepRuns => depExpected]_vars

====
